---- MODULE Spec2Model ----
(***************************************************************************)
(* A model of i3-status-rs: the MPRIS player watcher (src/src/mpris.rs)    *)
(* and the render loop that waits on its invalidation signal               *)
(* (src/src/main.rs).                                                      *)
(*                                                                         *)
(* Strings of the program are TLA+ strings; a rendered text is a sequence  *)
(* of string pieces (its concatenation), so "" is << >>.                   *)
(***************************************************************************)
EXTENDS Integers, Sequences, FiniteSets, TLC

(***************************************************************************)
(* Bounds of the model.                                                    *)
(***************************************************************************)
\* longest artist list (in Player State and in a decoded xesam:artist value)
MaxArtists == 2
\* most key/value entries of one metadata container
MaxEntries == 2
\* most delayed re-fetch tasks alive at once
MaxTasks == 1
\* most control calls waiting for their reply at once
MaxCalls == 1

(***************************************************************************)
(* D-Bus values as the dbus crate's `dyn RefArg` presents them.  Every     *)
(* value has the same three fields so that any two can be compared:        *)
(*   t    - "str", "int" (any scalar that is no string), "variant",        *)
(*          "array" (any container: array, dict, struct)                   *)
(*   s    - the text of a "str"                                            *)
(*   kids - what as_iter() yields: the inner value of a variant, the       *)
(*          elements of an array or struct, key, value, key, value, ...    *)
(*          of a dict                                                      *)
(***************************************************************************)
StrV(x) == [t |-> "str", s |-> x, kids |-> << >>]

IntV == [t |-> "int", s |-> "", kids |-> << >>]

VariantV(v) == [t |-> "variant", s |-> "", kids |-> <<v>>]

ArrayV(items) == [t |-> "array", s |-> "", kids |-> items]

NoStr == [some |-> FALSE, val |-> ""]

NoIter == [some |-> FALSE, val |-> << >>]

NoValue == [some |-> FALSE, val |-> IntV]

Some(x) == [some |-> TRUE, val |-> x]

\* RefArg::as_str: a string gives its text, a variant delegates to the value
\* it wraps, every other value gives None.
RECURSIVE as_str(_)
as_str(v) ==
  IF v.t = "str" THEN Some(v.s)
  ELSE IF v.t = "variant" THEN as_str(v.kids[1])
  ELSE NoStr

\* RefArg::as_iter: a variant iterates over the one value it wraps, a
\* container over its elements, a scalar gives None.
as_iter(v) ==
  IF v.t \in {"variant", "array"} THEN Some(v.kids) ELSE NoIter

\* PlayerState::extract_value_from_variant: variant.as_iter()?.next()
extract_value_from_variant(variant) ==
  LET it == as_iter(variant)
  IN  IF ~it.some \/ it.val = << >> THEN NoValue ELSE Some(it.val[1])

(***************************************************************************)
(* Player State.  `notifies` counts the calls of self.invalidate           *)
(* .notify_one() made by the method that is running; the action that runs  *)
(* the method applies them to the shared Notify.                           *)
(***************************************************************************)
DefaultState == [playing |-> FALSE, title |-> "", artists |-> << >>]

\* PlayerState::new
new(st) == [playing |-> st.playing, title |-> st.title,
            artists |-> st.artists, notifies |-> 0]

Fields(self) == [playing |-> self.playing, title |-> self.title,
                 artists |-> self.artists]

\* name_lost that keeps the artists
name_lost_keeps_artists(self) ==
  [self EXCEPT !.playing = FALSE, !.title = "",
               !.notifies = self.notifies + 1]

\* PlayerState::name_lost
name_lost(self) ==
  [self EXCEPT !.playing = FALSE, !.title = "", !.artists = << >>,
               !.notifies = self.notifies + 1]

\* the loop putting every element that is a string in front of the others
RECURSIVE push_artists_front(_, _)
push_artists_front(artists, elems) ==
  IF elems = << >> THEN artists
  ELSE LET a == as_str(elems[1])
       IN  push_artists_front(IF a.some THEN <<a.val>> \o artists ELSE artists,
                              Tail(elems))

\* the `for artist in iter` loop: push every element that is a string
RECURSIVE push_artists(_, _)
push_artists(artists, elems) ==
  IF elems = << >> THEN artists
  ELSE LET a == as_str(elems[1])
       IN  push_artists(IF a.some THEN Append(artists, a.val) ELSE artists,
                        Tail(elems))

\* the "xesam:artist" arm with the as_iter test before the clear
apply_artist_checked(self, value) ==
  LET it == as_iter(value)
  IN  IF ~it.some THEN self
      ELSE [self EXCEPT !.artists = push_artists(<< >>, it.val)]

\* the "xesam:artist" arm: clear, then rebuild if the value iterates
apply_artist(self, value) ==
  LET it == as_iter(value)
  IN  IF ~it.some THEN [self EXCEPT !.artists = << >>]
      ELSE [self EXCEPT !.artists = push_artists(<< >>, it.val)]

\* the "xesam:title" arm keeping the old title when the value is no string
apply_title_keep(self, value) ==
  LET x == as_str(value)
  IN  IF x.some THEN [self EXCEPT !.title = x.val] ELSE self

\* the "xesam:title" arm: value.as_str().unwrap_or("")
apply_title(self, value) ==
  LET x == as_str(value)
  IN  [self EXCEPT !.title = IF x.some THEN x.val ELSE ""]

\* match key { ... }
apply_key(self, key, value) ==
  IF key = "xesam:title" THEN apply_title(self, value)
  ELSE IF key = "xesam:artist" THEN apply_artist(self, value)
  ELSE self

\* The loop of update_metadata over the items the iterator yields, from
\* item i on.  A key that is no string takes one item and continues; a
\* missing or non-unwrappable value breaks out of the loop.
RECURSIVE metadata_loop(_, _, _)
metadata_loop(self, items, i) ==
  IF i > Len(items) THEN self
  ELSE LET key == as_str(items[i])
       IN  IF ~key.some THEN metadata_loop(self, items, i + 1)
           ELSE IF i + 1 > Len(items) THEN self
           ELSE LET value == extract_value_from_variant(items[i + 1])
                IN  IF ~value.some THEN self
                    ELSE metadata_loop(apply_key(self, key.val, value.val),
                                       items, i + 2)

\* PlayerState::update_metadata
update_metadata(self, metadata) ==
  LET it == as_iter(metadata)
  IN  IF ~it.some THEN self
      ELSE LET done == metadata_loop(self, it.val, 1)
           IN  [done EXCEPT !.notifies = done.notifies + 1]

\* the "PlaybackStatus" arm that treats a malformed value as "no change"
apply_playback_keep(self, value) ==
  LET x == as_str(value)
  IN  IF x.some THEN [self EXCEPT !.playing = (x.val = "Playing")] ELSE self

\* the "PlaybackStatus" arm
apply_playback(self, value) ==
  LET x == as_str(value)
  IN  [self EXCEPT !.playing = IF x.some THEN x.val = "Playing" ELSE FALSE]

\* the body of `for (field, value) in props`, from entry i on; value is the
\* value the entry's variant wraps
RECURSIVE props_loop(_, _, _)
props_loop(self, props, i) ==
  IF i > Len(props) THEN self
  ELSE LET e == props[i]
           next == IF e.field = "Metadata" THEN update_metadata(self, e.value)
                   ELSE IF e.field = "PlaybackStatus"
                        THEN apply_playback(self, e.value)
                   ELSE self
       IN  props_loop(next, props, i + 1)

\* update without its trailing notify_one
update_silent(self, props) == props_loop(self, props, 1)

\* PlayerState::update
update(self, props) ==
  LET done == props_loop(self, props, 1)
  IN  [done EXCEPT !.notifies = done.notifies + 1]

(***************************************************************************)
(* tokio::sync::Notify with at most one waiter (each Notify of the program *)
(* is awaited by one task): `permit` is the stored wake-up, `waiter` is    *)
(* "none", "waiting" (a Notified future is registered) or "notified" (it   *)
(* was handed a notification and its task has not run yet).                *)
(***************************************************************************)
NewNotify == [permit |-> FALSE, waiter |-> "none"]

\* a wake-up that is dropped when nobody waits (what notify_waiters does)
notify_no_permit(n) ==
  IF n.waiter = "waiting" THEN [n EXCEPT !.waiter = "notified"] ELSE n

\* Notify::notify_one: wake the waiter, or store the permit
notify_one(n) ==
  IF n.waiter = "waiting" THEN [n EXCEPT !.waiter = "notified"]
  ELSE [n EXCEPT !.permit = TRUE]

\* k calls of notify_one
RECURSIVE notify_times(_, _)
notify_times(n, k) == IF k = 0 THEN n ELSE notify_times(notify_one(n), k - 1)

(***************************************************************************)
(* The wait of the render loop (main.rs:148-150).  second() and            *)
(* timestamp_subsec_millis() are u32 and so is the arithmetic on them.  A  *)
(* u32 is kept as its two 16-bit halves [hi, lo], value hi * 2^16 + lo.    *)
(***************************************************************************)
MinuteMs == 60000

SecondMs == 1000

MaxWaitMs == 2000

Half == 2 ^ 16

u32(n) == [hi |-> n \div Half, lo |-> n % Half]

\* the value of a u32 below 2^31
int(a) == a.hi * Half + a.lo

lt_u32(a, b) == a.hi < b.hi \/ (a.hi = b.hi /\ a.lo < b.lo)

\* a - b modulo 2^32
wrapping_sub(a, b) ==
  LET borrow == IF a.lo < b.lo THEN 1 ELSE 0
  IN  [hi |-> (a.hi - b.hi - borrow) % Half, lo |-> (a.lo - b.lo) % Half]

\* std::cmp::min
min(a, b) == IF lt_u32(b, a) THEN b ELSE a

\* 60000 - 1000 * now_wall.second() - now_wall.timestamp_subsec_millis():
\* the two subtractions from left to right.  `underflow` says that one of
\* them went below zero, `value` is what wrapping arithmetic leaves.
next_minute_ms(now_wall) ==
  LET whole == u32(SecondMs * now_wall.second)
      first == wrapping_sub(u32(MinuteMs), whole)
      millis == u32(now_wall.millis)
  IN  [underflow |-> lt_u32(u32(MinuteMs), whole) \/ lt_u32(first, millis),
       value |-> wrapping_sub(first, millis)]

\* What lines 148-150 leave for one reading of the clock.  An underflow
\* panics in a build with overflow checks (the debug profile) and wraps in
\* one without (the release profile): both builds are outcomes.
wait_outcomes(now_wall) ==
  LET d == next_minute_ms(now_wall)
      wait_ms == int(min(u32(MaxWaitMs), d.value))
  IN  IF ~d.underflow
      THEN {[now_wall |-> now_wall, outcome |-> "ok", wait_ms |-> wait_ms]}
      ELSE {[now_wall |-> now_wall, outcome |-> "panicked", wait_ms |-> 0],
            [now_wall |-> now_wall, outcome |-> "wrapped",
             wait_ms |-> wait_ms]}

\* no reading yet
NoClock == [now_wall |-> [second |-> 0, millis |-> 0], outcome |-> "none",
            wait_ms |-> 0]

(***************************************************************************)
(* The state of the program.                                               *)
(***************************************************************************)
VARIABLES
  state,        \* the fields of PlayerState behind Mpris.state's Mutex
  lock,         \* who holds that Mutex: "none" or "main"
  invalidate,   \* the Notify the render loop waits on
  destruct,     \* the Notify the watcher task waits on
  mpc,          \* where the render loop of main is
  snap,         \* its locals current_track and playing
  record,       \* the last record it printed
  lastWake,     \* how its last wait ended
  clock,        \* its locals now_wall and wait_ms, dropped when the wait ends
  wpc,          \* where the task of create_watcher is
  matches,      \* the two subscriptions
  attempts,     \* add_match calls made so far
  props_reply,  \* the reply to GetAll, once it has arrived
  tasks,        \* the delayed re-fetch tasks
  present,      \* whether the player's bus name has an owner
  dropped,      \* "no", or where the watcher task was when Mpris was dropped
  call,         \* the last PlayerState method run: its receiver and arguments
  fired,        \* notify_one was called on invalidate since the last snapshot
  loss,         \* name_lost ran: "pending" until the next record, then "shown"
  runtime,      \* the flavor of the tokio runtime
  conn,         \* the bus connection: "up", or "lost" once its resource ended
  clicks,       \* where the task that reads the click events is
  control       \* the control calls sent whose reply has not come

vars == <<state, lock, invalidate, destruct, mpc, snap, record, lastWake,
          clock, wpc, matches, attempts, props_reply, tasks, present, dropped,
          call, fired, loss, runtime, conn, clicks, control>>

procVars == <<conn, clicks, control>>

playerVars == <<state, invalidate, fired, loss>>

mainVars == <<lock, mpc, snap, record, lastWake, clock>>

watcherVars == <<destruct, wpc, matches, attempts, props_reply, dropped>>

(***************************************************************************)
(* Inputs.                                                                 *)
(***************************************************************************)
SeqsUpTo(S, n) == UNION {[1..k -> S] : k \in 0..n}

Names == {"X", "Y"}

Titles == {"A", "B"}

PlayerStates ==
  [playing : BOOLEAN, title : {""} \cup Titles,
   artists : SeqsUpTo(Names, MaxArtists)]

\* the items a dict yields: key, value, key, value, ...
RECURSIVE Flatten(_)
Flatten(entries) ==
  IF entries = << >> THEN << >>
  ELSE <<entries[1][1], entries[1][2]>> \o Flatten(Tail(entries))

Dict(entries) == ArrayV(Flatten(entries))

TitleEntry(x) == <<StrV("xesam:title"), VariantV(StrV(x))>>

ArtistEntry(elems) == <<StrV("xesam:artist"), VariantV(ArrayV(elems))>>

\* Entries of a metadata container, well-formed and not.
Entries ==
  { TitleEntry("A"),
    <<StrV("xesam:title"), VariantV(IntV)>>,
    <<StrV("xesam:title"), StrV("A")>>,
    ArtistEntry(<<StrV("Y"), StrV("X")>>),
    <<StrV("xesam:artist"), VariantV(StrV("X"))>>,
    <<StrV("mpris:length"), VariantV(IntV)>>,
    <<IntV, VariantV(IntV)>>,
    <<IntV, VariantV(StrV("xesam:title"))>> }

ArtistLists == SeqsUpTo({StrV("X"), StrV("Y"), IntV}, MaxArtists)

\* The values update_metadata is called with.
MetadataValues ==
  {Dict(es) : es \in SeqsUpTo(Entries, MaxEntries)}
    \cup {Dict(<<ArtistEntry(l)>>) : l \in ArtistLists}
    \cup {StrV("A")}

PropFields == {"Metadata", "PlaybackStatus", "Volume"}

PropEntries ==
  [field : {"PlaybackStatus"},
   value : {StrV("Playing"), StrV("Paused"), IntV}]
    \cup [field : {"Metadata"},
          value : {Dict(<< >>), Dict(<<TitleEntry("A")>>),
                   Dict(<<ArtistEntry(<<StrV("X")>>)>>), StrV("A")}]
    \cup [field : {"Volume"}, value : {IntV}]

\* The maps update is called with: the entries of a HashMap in the order
\* its iterator yields them, no field twice.
PropMaps ==
  {p \in SeqsUpTo(PropEntries, Cardinality(PropFields)) :
     \A i, j \in 1..Len(p) : i # j => p[i].field # p[j].field}

NoCall == [op |-> "none", before |-> DefaultState, props |-> << >>,
           metadata |-> IntV, notifies |-> 0]

(***************************************************************************)
(* Running a PlayerState method under the lock: `after` is what the method *)
(* returned for new(state).  The fields are stored and the notify_one      *)
(* calls it made reach `invalidate`.  Called(...) notes the call.          *)
(***************************************************************************)
Locked(op, after) ==
  /\ lock = "none"
  /\ state' = Fields(after)
  /\ invalidate' = notify_times(invalidate, after.notifies)
  /\ fired' = (fired \/ (after.notifies > 0 /\ mpc \in {"emit", "wait"}))
  /\ loss' = IF op = "name_lost" THEN "pending" ELSE loss

Called(op, props, metadata, after) ==
  call' = [op |-> op, before |-> state, props |-> props,
           metadata |-> metadata, notifies |-> after.notifies]

(***************************************************************************)
(* After Mpris::new and before the first task is polled.                   *)
(***************************************************************************)
InitRest ==
  /\ lock = "none"
  /\ invalidate = NewNotify
  /\ destruct = NewNotify
  /\ mpc = "lock"
  /\ snap = [current_track |-> << >>, playing |-> FALSE]
  /\ record = [emitted |-> FALSE, track |-> << >>, previous |-> "",
               play_pause |-> "", play_name |-> "", next |-> ""]
  /\ lastWake = "none"
  /\ clock = NoClock
  /\ wpc = "start"
  /\ matches = [property_changed |-> [cb |-> FALSE, rule |-> FALSE,
                                       removed |-> FALSE],
                name_owner_changed |-> [cb |-> FALSE, rule |-> FALSE,
                                         removed |-> FALSE]]
  /\ attempts = 0
  /\ props_reply = [some |-> FALSE, val |-> << >>]
  /\ tasks = [i \in 1..MaxTasks |-> [pc |-> "idle", metadata |-> IntV]]
  /\ dropped = "no"
  /\ call = NoCall
  /\ fired = FALSE
  /\ loss = "none"
  /\ conn = "up"
  /\ clicks = "first"
  /\ control = << >>

(***************************************************************************)
(* The methods of PlayerState on their own: one call from every Player     *)
(* State with every input.                                                 *)
(***************************************************************************)
InitFn ==
  /\ state \in PlayerStates
  /\ present = TRUE
  /\ runtime = "current_thread"
  /\ InitRest

CallUpdate ==
  \E props \in PropMaps :
    /\ call.op = "none"
    /\ Locked("update", update(new(state), props))
    /\ Called("update", props, IntV, update(new(state), props))
    /\ UNCHANGED <<mainVars, watcherVars, tasks, present, runtime, procVars>>

CallUpdateMetadata ==
  \E metadata \in MetadataValues :
    /\ call.op = "none"
    /\ Locked("update_metadata", update_metadata(new(state), metadata))
    /\ Called("update_metadata", << >>, metadata,
              update_metadata(new(state), metadata))
    /\ UNCHANGED <<mainVars, watcherVars, tasks, present, runtime, procVars>>

CallNameLost ==
  /\ call.op = "none"
  /\ Locked("name_lost", name_lost(new(state)))
  /\ Called("name_lost", << >>, IntV, name_lost(new(state)))
  /\ UNCHANGED <<mainVars, watcherVars, tasks, present, runtime, procVars>>

NextFn == CallUpdate \/ CallUpdateMetadata \/ CallNameLost

SpecFn == InitFn /\ [][NextFn]_vars

(***************************************************************************)
(* The render loop of main (main.rs:75-152).                               *)
(***************************************************************************)
\* artists.join(" - ")
RECURSIVE join(_)
join(artists) ==
  IF artists = << >> THEN << >>
  ELSE IF Len(artists) = 1 THEN <<artists[1]>>
  ELSE <<artists[1], " - ">> \o join(Tail(artists))

\* format!("{} - {}", state.artists.join(" - "), state.title)
format_track(st) == join(st.artists) \o <<" - ", st.title>>

\* The readings of the clock in the program's runs: the start of a minute
\* and the middle of a leap second.
SysReadings == {[second |-> 0, millis |-> 0], [second |-> 59, millis |-> 1500]}

NoRecord == [emitted |-> FALSE, track |-> << >>, previous |-> "",
             play_pause |-> "", play_name |-> "", next |-> ""]

\* a record whose play/pause block always carries the play action
RenderAlwaysPlay(s) ==
  [emitted |-> TRUE,
   track |-> s.current_track,
   previous |-> IF s.current_track = << >> THEN "" ELSE "f049",
   play_pause |-> IF s.current_track = << >> THEN ""
                  ELSE IF s.playing THEN "f04c" ELSE "f04b",
   play_name |-> "mpris-play",
   next |-> IF s.current_track = << >> THEN "" ELSE "f050"]

\* the four blocks of the printed record that show the player
Render(s) ==
  [emitted |-> TRUE,
   track |-> s.current_track,
   previous |-> IF s.current_track = << >> THEN "" ELSE "f049",
   play_pause |-> IF s.current_track = << >> THEN ""
                  ELSE IF s.playing THEN "f04c" ELSE "f04b",
   play_name |-> IF s.playing THEN "mpris-pause" ELSE "mpris-play",
   next |-> IF s.current_track = << >> THEN "" ELSE "f050"]

\* let state = mpris.state();
MainLock ==
  /\ mpc = "lock"
  /\ lock = "none"
  /\ lock' = "main"
  /\ mpc' = "copy"
  /\ UNCHANGED <<playerVars, snap, record, lastWake, clock, watcherVars,
                 tasks, present, call, runtime, procVars>>

\* the block with a guard that outlives it
MainCopyHolding ==
  /\ mpc = "copy"
  /\ snap' = [current_track |-> IF state.title = "" THEN << >>
                                ELSE format_track(state),
              playing |-> state.playing]
  /\ mpc' = "emit"
  /\ fired' = FALSE
  /\ UNCHANGED <<state, invalidate, call, loss, record, lastWake, clock,
                 lock, watcherVars, tasks, present, runtime, procVars>>

\* the rest of the block: the fields are copied and the guard is dropped
MainCopy ==
  /\ mpc = "copy"
  /\ snap' = [current_track |-> IF state.title = "" THEN << >>
                                ELSE format_track(state),
              playing |-> state.playing]
  /\ lock' = "none"
  /\ mpc' = "emit"
  /\ fired' = FALSE
  /\ UNCHANGED <<state, invalidate, call, loss, record, lastWake, clock,
                 watcherVars, tasks, present, runtime, procVars>>

\* the metrics and the clock are read, the record is printed and the wait
\* is computed; a panic of main ends the process
MainEmit ==
  /\ mpc = "emit"
  /\ record' = Render(snap)
  /\ loss' = IF loss = "pending" THEN "shown" ELSE "none"
  /\ \E now_wall \in SysReadings :
       \E w \in wait_outcomes(now_wall) :
         /\ clock' = w
         /\ mpc' = IF w.outcome = "panicked" THEN "panicked" ELSE "wait"
  /\ UNCHANGED <<state, invalidate, call, fired, lock, snap, lastWake,
                 watcherVars, tasks, present, runtime, procVars>>

\* timeout_at(wake_at, invalidate.notified()).await, first poll: a stored
\* permit is taken and the wait is over, else the loop is suspended
MainWait ==
  /\ mpc = "wait"
  /\ IF invalidate.permit
     THEN /\ invalidate' = [invalidate EXCEPT !.permit = FALSE]
          /\ lastWake' = "pending"
          /\ clock' = NoClock
          /\ mpc' = "lock"
     ELSE /\ invalidate' = [invalidate EXCEPT !.waiter = "waiting"]
          /\ lastWake' = lastWake
          /\ clock' = clock
          /\ mpc' = "waiting"
  /\ UNCHANGED <<state, call, fired, loss, lock, snap, record,
                 watcherVars, tasks, present, runtime, procVars>>

\* the suspended loop is woken by notify_one
MainNotified ==
  /\ mpc = "waiting"
  /\ invalidate.waiter = "notified"
  /\ invalidate' = [invalidate EXCEPT !.waiter = "none"]
  /\ lastWake' = "notified"
  /\ clock' = NoClock
  /\ mpc' = "lock"
  /\ UNCHANGED <<state, call, fired, loss, lock, snap, record,
                 watcherVars, tasks, present, runtime, procVars>>

\* the deadline passes first: the Notified future is dropped
MainTimeout ==
  /\ mpc = "waiting"
  /\ invalidate.waiter = "waiting"
  /\ invalidate' = [invalidate EXCEPT !.waiter = "none"]
  /\ lastWake' = "timeout"
  /\ clock' = NoClock
  /\ mpc' = "lock"
  /\ UNCHANGED <<state, call, fired, loss, lock, snap, record,
                 watcherVars, tasks, present, runtime, procVars>>

MainStep ==
  MainLock \/ MainCopy \/ MainEmit \/ MainWait \/ MainNotified \/ MainTimeout

(***************************************************************************)
(* The runtime polls one task at a time and a task runs from one await to  *)
(* the next.  On the current_thread runtime of main the watcher, the       *)
(* callbacks of the connection and the re-fetch tasks therefore run only   *)
(* while the render loop is suspended in its wait; on a runtime with       *)
(* several threads they run between any two of its statements that the     *)
(* Mutex lets them.                                                        *)
(***************************************************************************)
CanRun ==
  /\ mpc \notin {"panicked", "aborted"}
  /\ runtime = "multi_thread" \/ mpc = "waiting"

\* The connection reads messages, runs callbacks and completes replies only
\* while its resource future is polled, that is until it ends with an error.
Receiving == conn = "up"

(***************************************************************************)
(* What the bus sends in the program's runs.                               *)
(***************************************************************************)
SysMetadata == {Dict(<<TitleEntry("A"), ArtistEntry(<<StrV("X")>>)>>)}

SysProps ==
  { << >>,
    <<[field |-> "PlaybackStatus", value |-> StrV("Playing")]>>,
    <<[field |-> "Metadata", value |-> Dict(<<TitleEntry("A")>>)]>> }

NoPlayerCall == UNCHANGED playerVars

(***************************************************************************)
(* The task of create_watcher (mpris.rs:165-203).  A subscription is       *)
(* [cb, rule, removed]: its callback is installed on the connection, its   *)
(* match rule is registered with the bus, remove_match was called for it.  *)
(***************************************************************************)
NoMatch == [cb |-> FALSE, rule |-> FALSE, removed |-> FALSE]

\* conn.remove_match(token): the callback stops receiving at once
Removing(m) == [m EXCEPT !.cb = FALSE, !.removed = TRUE]

\* first poll: create_property_changed_handler sends its AddMatch
WatcherStart ==
  /\ CanRun
  /\ wpc = "start"
  /\ attempts' = attempts + 1
  /\ wpc' = "add1"
  /\ UNCHANGED <<playerVars, mainVars, destruct, matches, props_reply,
                 dropped, tasks, present, call, runtime, procVars>>

\* AddMatch on PropertiesChanged answered: the callback is installed and
\* create_name_owner_changed_handler sends its AddMatch, or the task returns
AddPropertyChanged ==
  /\ CanRun
  /\ wpc = "add1"
  /\ \E ok \in {Receiving, FALSE} :
       IF ok
       THEN /\ matches' = [matches EXCEPT !.property_changed =
                             [cb |-> TRUE, rule |-> TRUE, removed |-> FALSE]]
            /\ attempts' = attempts + 1
            /\ wpc' = "add2"
       ELSE /\ wpc' = "failed1"
            /\ UNCHANGED <<matches, attempts>>
  /\ UNCHANGED <<playerVars, mainVars, destruct, props_reply, dropped,
                 tasks, present, call, runtime, procVars>>

\* a failure path that returns without removing the first subscription
AddNameOwnerChangedNoCleanup ==
  /\ CanRun
  /\ wpc = "add2"
  /\ \E ok \in {Receiving, FALSE} :
       IF ok
       THEN /\ matches' = [matches EXCEPT !.name_owner_changed =
                             [cb |-> TRUE, rule |-> TRUE, removed |-> FALSE]]
            /\ wpc' = "getall"
       ELSE /\ matches' = matches
            /\ wpc' = "failed2"
  /\ UNCHANGED <<playerVars, mainVars, destruct, attempts, props_reply,
                 dropped, tasks, present, call, runtime, procVars>>

\* AddMatch on NameOwnerChanged answered: the callback is installed and
\* GetAll is sent, or the first subscription is removed again
AddNameOwnerChanged ==
  /\ CanRun
  /\ wpc = "add2"
  /\ \E ok \in {Receiving, FALSE} :
       IF ok
       THEN /\ matches' = [matches EXCEPT !.name_owner_changed =
                             [cb |-> TRUE, rule |-> TRUE, removed |-> FALSE]]
            /\ wpc' = "getall"
       ELSE /\ matches' = [matches EXCEPT !.property_changed =
                             Removing(matches.property_changed)]
            /\ wpc' = "abort"
  /\ UNCHANGED <<playerVars, mainVars, destruct, attempts, props_reply,
                 dropped, tasks, present, call, runtime, procVars>>

\* the RemoveMatch of the failure path answered: the task returns
AbortRemoved ==
  /\ CanRun
  /\ wpc = "abort"
  /\ \E ok \in {Receiving, FALSE} :
       matches' = [matches EXCEPT !.property_changed.rule =
                     IF ok THEN FALSE ELSE @]
  /\ wpc' = "failed2"
  /\ UNCHANGED <<playerVars, mainVars, destruct, attempts, props_reply,
                 dropped, tasks, present, call, runtime, procVars>>

\* the reply to GetAll arrives: the properties the player has now, or an
\* error (always an error when the name has no owner)
GetAllReply ==
  /\ CanRun
  /\ wpc = "getall"
  /\ \/ /\ present
        /\ Receiving
        /\ \E props \in SysProps : props_reply' = Some(props)
     \/ props_reply' = [some |-> FALSE, val |-> << >>]
  /\ wpc' = "got"
  /\ UNCHANGED <<playerVars, mainVars, destruct, matches, attempts,
                 dropped, tasks, present, call, runtime, procVars>>

\* destruct.notified().await, first poll, then the first remove_match if
\* the permit was there
AwaitDestruct ==
  IF destruct.permit
  THEN /\ destruct' = [destruct EXCEPT !.permit = FALSE]
       /\ matches' = [matches EXCEPT !.name_owner_changed =
                        Removing(matches.name_owner_changed)]
       /\ wpc' = "rm2"
  ELSE /\ destruct' = [destruct EXCEPT !.waiter = "waiting"]
       /\ matches' = matches
       /\ wpc' = "wait"

\* the task resumes with the reply: the properties are applied and the task
\* goes on to wait for destruct
WatcherApply ==
  /\ CanRun
  /\ wpc = "got"
  /\ IF props_reply.some
     THEN Locked("update", update(new(state), props_reply.val))
     ELSE NoPlayerCall
  /\ AwaitDestruct
  /\ props_reply' = [some |-> FALSE, val |-> << >>]
  /\ UNCHANGED <<mainVars, attempts, dropped, tasks, present, call,
                 runtime, procVars>>

\* woken by Drop: remove_match of the NameOwnerChanged subscription
WatcherWake ==
  /\ CanRun
  /\ wpc = "wait"
  /\ destruct.waiter = "notified"
  /\ destruct' = [destruct EXCEPT !.waiter = "none"]
  /\ matches' = [matches EXCEPT !.name_owner_changed =
                   Removing(matches.name_owner_changed)]
  /\ wpc' = "rm2"
  /\ UNCHANGED <<playerVars, mainVars, attempts, props_reply, dropped,
                 tasks, present, call, runtime, procVars>>

\* its RemoveMatch answered, with or without an error: remove_match of the
\* PropertiesChanged subscription
RemovedNameOwnerChanged ==
  /\ CanRun
  /\ wpc = "rm2"
  /\ \E ok \in {Receiving, FALSE} :
       matches' = [matches EXCEPT
                     !.name_owner_changed.rule = IF ok THEN FALSE ELSE @,
                     !.property_changed = Removing(matches.property_changed)]
  /\ wpc' = "rm1"
  /\ UNCHANGED <<playerVars, mainVars, destruct, attempts, props_reply,
                 dropped, tasks, present, call, runtime, procVars>>

\* its RemoveMatch answered, with or without an error: the task returns
RemovedPropertyChanged ==
  /\ CanRun
  /\ wpc = "rm1"
  /\ \E ok \in {Receiving, FALSE} :
       matches' = [matches EXCEPT
                     !.property_changed.rule = IF ok THEN FALSE ELSE @]
  /\ wpc' = "done"
  /\ UNCHANGED <<playerVars, mainVars, destruct, attempts, props_reply,
                 dropped, tasks, present, call, runtime, procVars>>

\* the task up to its wait for destruct
SetupStep ==
  \/ WatcherStart
  \/ AddPropertyChanged
  \/ AddNameOwnerChanged
  \/ AbortRemoved
  \/ GetAllReply
  \/ WatcherApply

\* the task after destruct was notified
TeardownStep ==
  WatcherWake \/ RemovedNameOwnerChanged \/ RemovedPropertyChanged

WatcherStep == SetupStep \/ TeardownStep

\* a drop that wakes only a task that is already waiting
DropForgetful ==
  /\ dropped = "no"
  /\ dropped' = wpc
  /\ destruct' = notify_no_permit(destruct)
  /\ UNCHANGED <<playerVars, mainVars, wpc, matches, attempts,
                 props_reply, tasks, present, call, runtime, procVars>>

\* Drop for Mpris: destruct.notify_one()
Drop ==
  /\ dropped = "no"
  /\ dropped' = wpc
  /\ destruct' = notify_one(destruct)
  /\ UNCHANGED <<playerVars, mainVars, wpc, matches, attempts,
                 props_reply, tasks, present, call, runtime, procVars>>

(***************************************************************************)
(* The callbacks the connection runs when a signal arrives.                *)
(***************************************************************************)
\* the PropertiesChanged callback (mpris.rs:118-129); the player sends the
\* signal, so its name has an owner
PropertiesChanged ==
  /\ CanRun
  /\ Receiving
  /\ present
  /\ matches.property_changed.cb
  /\ \E interface_name \in {"org.mpris.MediaPlayer2.Player",
                            "org.mpris.MediaPlayer2"} :
       IF interface_name # "org.mpris.MediaPlayer2.Player"
       THEN NoPlayerCall
       ELSE \E props \in SysProps :
              Locked("update", update(new(state), props))
  /\ UNCHANGED <<mainVars, watcherVars, tasks, present, call, runtime,
                 procVars>>

IdleTasks == {i \in 1..MaxTasks : tasks[i].pc = "idle"}

\* the bus reports that the player's name lost its owner; the
\* NameOwnerChanged callback (mpris.rs:137-162), if installed, runs name_lost
OwnerLost ==
  /\ CanRun
  /\ present
  /\ present' = FALSE
  /\ IF matches.name_owner_changed.cb /\ Receiving
     THEN Locked("name_lost", name_lost(new(state)))
     ELSE NoPlayerCall
  /\ UNCHANGED <<mainVars, watcherVars, tasks, call, runtime, procVars>>

\* the bus reports a new owner of the player's name; the callback, if
\* installed, spawns the delayed re-fetch
OwnerGained ==
  /\ CanRun
  /\ present' = TRUE
  /\ IF matches.name_owner_changed.cb /\ Receiving
     THEN /\ IdleTasks # {}
          /\ LET i == CHOOSE j \in IdleTasks : TRUE
             IN  tasks' = [tasks EXCEPT ![i].pc = "sleep"]
     ELSE tasks' = tasks
  /\ UNCHANGED <<playerVars, mainVars, watcherVars, call, runtime, procVars>>

\* NameOwnerChanged for another name: the callback returns at once
OtherOwnerChanged ==
  /\ CanRun
  /\ Receiving
  /\ matches.name_owner_changed.cb
  /\ UNCHANGED vars

BusStep ==
  PropertiesChanged \/ OwnerLost \/ OwnerGained \/ OtherOwnerChanged

(***************************************************************************)
(* The delayed re-fetch tasks (mpris.rs:147-159).                          *)
(***************************************************************************)
\* the second has passed: Get("Metadata") is sent
TaskCall ==
  \E i \in 1..MaxTasks :
    /\ CanRun
    /\ tasks[i].pc = "sleep"
    /\ tasks' = [tasks EXCEPT ![i].pc = "call"]
    /\ UNCHANGED <<playerVars, mainVars, watcherVars, present, call, runtime,
                   procVars>>

\* the reply arrives: the metadata the player has now
TaskReply ==
  \E i \in 1..MaxTasks :
    /\ CanRun
    /\ tasks[i].pc = "call"
    /\ present
    /\ Receiving
    /\ \E metadata \in SysMetadata :
         tasks' = [tasks EXCEPT ![i] = [pc |-> "got", metadata |-> metadata]]
    /\ UNCHANGED <<playerVars, mainVars, watcherVars, present, call, runtime,
                   procVars>>

\* the call fails: the task logs the error and returns
TaskFailed ==
  \E i \in 1..MaxTasks :
    /\ CanRun
    /\ tasks[i].pc = "call"
    /\ tasks' = [tasks EXCEPT ![i].pc = "idle"]
    /\ UNCHANGED <<playerVars, mainVars, watcherVars, present, call, runtime,
                   procVars>>

\* a task that applies the reply and takes the player for stopped
TaskApplyStopped ==
  \E i \in 1..MaxTasks :
    /\ CanRun
    /\ tasks[i].pc = "got"
    /\ Locked("update_metadata",
              [update_metadata(new(state), tasks[i].metadata)
                 EXCEPT !.playing = FALSE])
    /\ tasks' = [tasks EXCEPT ![i] = [pc |-> "idle", metadata |-> IntV]]
    /\ UNCHANGED <<mainVars, watcherVars, present, call, runtime, procVars>>

\* the task resumes with the reply and applies it
TaskApply ==
  \E i \in 1..MaxTasks :
    /\ CanRun
    /\ tasks[i].pc = "got"
    /\ Locked("update_metadata",
              update_metadata(new(state), tasks[i].metadata))
    /\ tasks' = [tasks EXCEPT ![i] = [pc |-> "idle", metadata |-> IntV]]
    /\ UNCHANGED <<mainVars, watcherVars, present, call, runtime, procVars>>

TaskStep == TaskCall \/ TaskReply \/ TaskFailed \/ TaskApply

(***************************************************************************)
(* The two tasks main spawns besides the watcher: the one that awaits the  *)
(* connection's resource (main.rs:40-43) and the one that reads the click  *)
(* events (main.rs:50-71).                                                 *)
(*                                                                         *)
(* A panic in a spawned task unwinds that task and leaves the others       *)
(* running; only a build with panic = "abort" ends the process instead.    *)
(* The build profile is not part of the sources, so both are outcomes.     *)
(***************************************************************************)
TaskPanics ==
  /\ mpc' \in {mpc, "aborted"}
  /\ UNCHANGED <<lock, snap, record, lastWake, clock>>

\* resource.await returns the error and the task panics
ResourceLost ==
  /\ CanRun
  /\ conn = "up"
  /\ conn' = "lost"
  /\ TaskPanics
  /\ UNCHANGED <<playerVars, watcherVars, tasks, present, call, runtime,
                 clicks, control>>

\* what stdin delivers: a click event, or a line that is no click event
Lines ==
  [name : {"absent", "mpris-play", "mpris-pause", "mpris-previous",
           "mpris-next", "other"},
   button : {1, 3}]
    \cup {[name |-> "malformed", button |-> 0]}

\* the control action a click event selects, "" for none
control_of(event) ==
  IF event.button # 1 THEN ""
  ELSE IF event.name = "mpris-play" THEN "Play"
  ELSE IF event.name = "mpris-pause" THEN "Pause"
  ELSE IF event.name = "mpris-previous" THEN "Previous"
  ELSE IF event.name = "mpris-next" THEN "Next"
  ELSE ""

\* the first line is read and ignored
ClickFirstLine ==
  /\ CanRun
  /\ clicks = "first"
  /\ clicks' = "lines"
  /\ UNCHANGED <<playerVars, mainVars, watcherVars, tasks, present, call,
                 runtime, conn, control>>

\* a line is read: a line that does not parse panics the task, a click of
\* button 1 on one of the four blocks sends the control call (Mpris::
\* send_call_simple) and spawns the task that awaits its reply
ClickLine ==
  /\ CanRun
  /\ clicks = "lines"
  /\ \E event \in Lines :
       IF event.name = "malformed"
       THEN /\ clicks' = "ended"
            /\ control' = control
            /\ TaskPanics
       ELSE /\ clicks' = clicks
            /\ IF control_of(event) = "" THEN control' = control
               ELSE /\ Len(control) < MaxCalls
                    /\ control' = Append(control, control_of(event))
            /\ UNCHANGED mainVars
  /\ UNCHANGED <<playerVars, watcherVars, tasks, present, call, runtime,
                 conn>>

\* stdin is closed: the task returns
ClickEnd ==
  /\ CanRun
  /\ clicks \in {"first", "lines"}
  /\ clicks' = "ended"
  /\ UNCHANGED <<playerVars, mainVars, watcherVars, tasks, present, call,
                 runtime, conn, control>>

\* a control call is answered, fails or times out: its task drops the result
ControlReply ==
  /\ CanRun
  /\ control # << >>
  /\ \E i \in 1..Len(control) :
       control' = [j \in 1..(Len(control) - 1) |->
                     IF j < i THEN control[j] ELSE control[j + 1]]
  /\ UNCHANGED <<playerVars, mainVars, watcherVars, tasks, present, call,
                 runtime, conn, clicks>>

ClickStep == ClickFirstLine \/ ClickLine \/ ClickEnd \/ ControlReply

(***************************************************************************)
(* The program: #[tokio::main(flavor = "current_thread")].  Mpris lives in *)
(* an Arc that main never gives up, so it is never dropped and the watcher *)
(* task never gets past its wait for destruct.                             *)
(***************************************************************************)
Init ==
  /\ state = DefaultState
  /\ present \in BOOLEAN
  /\ runtime = "current_thread"
  /\ InitRest

Next == MainStep \/ SetupStep \/ BusStep \/ TaskStep

Spec == Init /\ [][Next]_vars

(***************************************************************************)
(* The render loop on its own, from every Player State: nothing fires the  *)
(* Invalidation Signal, each wait ends at its deadline.                    *)
(***************************************************************************)
NextRender == MainLock \/ MainCopy \/ MainEmit \/ MainWait \/ MainTimeout

SpecRender == InitFn /\ [][NextRender]_vars

(***************************************************************************)
(* The render loop and one call of update(), from every Player State and   *)
(* with every property map, made by a callback when the runtime polls the  *)
(* connection.                                                             *)
(***************************************************************************)
UpdateOnce == CanRun /\ CallUpdate

NextOneUpdate == MainStep \/ UpdateOnce

SpecOneUpdate == InitFn /\ [][NextOneUpdate]_vars

(***************************************************************************)
(* The delayed re-fetch on its own: the watcher has set up both            *)
(* subscriptions and waits for destruct, the render loop has printed       *)
(* Player State and is suspended in its wait.  From every Player State,    *)
(* and with metadata values of every shape as the reply.                   *)
(***************************************************************************)
\* The replies to Get("Metadata"): no entry, each entry of Entries alone, a
\* title with its artists, and a value that is no container.
RefetchReplies ==
  {Dict(<<e>>) : e \in Entries}
    \cup {Dict(<< >>),
          Dict(<<TitleEntry("A"), ArtistEntry(<<StrV("Y"), StrV("X")>>)>>),
          StrV("A")}

InitRefetch ==
  /\ state \in PlayerStates
  /\ present \in BOOLEAN
  /\ runtime = "current_thread"
  /\ lock = "none"
  /\ invalidate = [permit |-> FALSE, waiter |-> "waiting"]
  /\ destruct = [permit |-> FALSE, waiter |-> "waiting"]
  /\ mpc = "waiting"
  /\ snap = [current_track |-> IF state.title = "" THEN << >>
                               ELSE format_track(state),
             playing |-> state.playing]
  /\ record = Render(snap)
  /\ lastWake = "timeout"
  /\ clock \in wait_outcomes([second |-> 0, millis |-> 0])
  /\ wpc = "wait"
  /\ matches = [property_changed |-> [cb |-> TRUE, rule |-> TRUE,
                                       removed |-> FALSE],
                name_owner_changed |-> [cb |-> TRUE, rule |-> TRUE,
                                         removed |-> FALSE]]
  /\ attempts = 2
  /\ props_reply = [some |-> FALSE, val |-> << >>]
  /\ tasks = [i \in 1..MaxTasks |-> [pc |-> "idle", metadata |-> IntV]]
  /\ dropped = "no"
  /\ call = NoCall
  /\ fired = FALSE
  /\ loss = "none"
  /\ conn = "up"
  /\ clicks = "first"
  /\ control = << >>

\* the reply to Get("Metadata"): any of these values
TaskReplyAny ==
  \E i \in 1..MaxTasks :
    /\ CanRun
    /\ tasks[i].pc = "call"
    /\ present
    /\ Receiving
    /\ \E metadata \in RefetchReplies :
         tasks' = [tasks EXCEPT ![i] = [pc |-> "got", metadata |-> metadata]]
    /\ UNCHANGED <<playerVars, mainVars, watcherVars, present, call, runtime,
                   procVars>>

NextRefetch ==
  OwnerGained \/ TaskCall \/ TaskReplyAny \/ TaskFailed \/ TaskApply

SpecRefetch == InitRefetch /\ [][NextRefetch]_vars

(***************************************************************************)
(* The program with the click events and with a connection that can be     *)
(* lost.                                                                   *)
(***************************************************************************)
NextProcess == Next \/ ClickStep \/ ResourceLost

SpecProcess == Init /\ [][NextProcess]_vars

(***************************************************************************)
(* The same code on a runtime with several threads: every interleaving of  *)
(* the render loop with the callbacks and tasks that the Mutex allows.     *)
(***************************************************************************)
InitPreempt ==
  /\ state = DefaultState
  /\ present \in BOOLEAN
  /\ runtime = "multi_thread"
  /\ InitRest

SpecPreempt == InitPreempt /\ [][Next]_vars

(***************************************************************************)
(* The watcher on its own, with an owner that may drop it at any moment.   *)
(* Every call on the bus is answered or times out, and the runtime polls   *)
(* a task that can run: the steps of the watcher task are weakly fair.     *)
(***************************************************************************)
NextWatcher == WatcherStep \/ BusStep \/ TaskStep \/ Drop

SpecWatcher ==
  InitPreempt /\ [][NextWatcher]_vars /\ WF_vars(WatcherStep)

(***************************************************************************)
(* The computation of the wait on its own, for every reading of the clock: *)
(* second() is 0..59 and timestamp_subsec_millis() is 0..999, or 1000..1999*)
(* while chrono shows a leap second (as the second half of 23:59:59).      *)
(***************************************************************************)
Readings ==
  [second : 0..59, millis : 0..999]
    \cup [second : {59}, millis : 1000..1999]

\* chrono::Local::now()
ReadClock ==
  /\ clock.outcome = "none"
  /\ \E now_wall \in Readings :
       clock' = [now_wall |-> now_wall, outcome |-> "read", wait_ms |-> 0]
  /\ UNCHANGED <<playerVars, lock, mpc, snap, record, lastWake, watcherVars,
                 tasks, present, call, runtime, procVars>>

\* next_minute_ms, wait_ms and wake_at
ComputeWait ==
  /\ clock.outcome = "read"
  /\ clock' \in wait_outcomes(clock.now_wall)
  /\ UNCHANGED <<playerVars, lock, mpc, snap, record, lastWake, watcherVars,
                 tasks, present, call, runtime, procVars>>

NextClock == ReadClock \/ ComputeWait

SpecClock == Init /\ [][NextClock]_vars

(***************************************************************************)
(* Claims about the render loop and the watcher.                           *)
(***************************************************************************)
\* C1 (under SpecPreempt): if the Invalidation Signal was fired after the
\* render loop took its snapshot and before it starts to wait, then the wait
\* of that iteration ends at once, by the stored permit: the loop goes from
\* the wait straight back to its first step and is never suspended.
C1_NoLostWakeup ==
  [][(mpc = "wait" /\ fired)
       => (mpc' = "wait" \/ (mpc' = "lock" /\ lastWake' = "pending"))]_vars

C1_Witness ==
  /\ fired
  /\ mpc = "lock"
  /\ lastWake = "pending"
  /\ record.emitted

\* C2 as claimed (under Spec): the first record printed after name_lost ran
\* has empty text in the track block and in the three control blocks.
C2_NextRecordEmpty ==
  loss = "shown" =>
    /\ record.track = << >>
    /\ record.previous = ""
    /\ record.play_pause = ""
    /\ record.next = ""

\* what the code does: the name still has no owner, and the first record
\* after the reset shows a track, applied from a reply that had arrived
\* before the reset
C2_StaleRecord ==
  /\ loss = "shown"
  /\ ~present
  /\ record.track # << >>
  /\ record.next # ""

SetupFailed == wpc \in {"failed1", "abort", "failed2"}

\* C3 as claimed (under Spec): once the registration of either subscription
\* has failed, Player State is at its default, and stays there.
C3_DefaultAfterFailure == SetupFailed => state = DefaultState

\* what the code does: the second registration failed and Player State holds
\* what a PropertiesChanged signal set while that registration was pending
C3_StaleAfterFailure ==
  /\ wpc = "failed2"
  /\ state # DefaultState
  /\ attempts = 2

TornDown ==
  /\ wpc = "done"
  /\ matches.name_owner_changed.removed
  /\ matches.property_changed.removed
  /\ ~matches.name_owner_changed.cb
  /\ ~matches.property_changed.cb

\* C4 (under SpecWatcher, the steps of the watcher task weakly fair): once
\* Mpris is dropped, at any point of the setup, the watcher task eventually
\* returns; unless a registration failed it has then called remove_match for
\* both subscriptions, whether or not the bus removed the rules.
C4_TeardownCompletes ==
  (dropped # "no") ~> (wpc \in {"failed1", "failed2"} \/ TornDown)

C4_Witness ==
  /\ TornDown
  /\ dropped = "add1"
  /\ matches.property_changed.rule
  /\ ~matches.name_owner_changed.rule

\* C13 as claimed (under SpecProcess): once the connection's resource has
\* reported the loss of the connection, the render loop prints no further
\* record and no further click event is dispatched to a control action.
C13_LossIsFatal ==
  [][conn = "lost" =>
       /\ ~(mpc = "emit" /\ mpc' \in {"wait", "panicked"})
       /\ Len(control') <= Len(control)]_vars

\* what the code does: the panic ended only the task that awaited the
\* resource; the wait of the render loop timed out, it printed the next
\* record, and a click was dispatched
C13_Witness ==
  /\ conn = "lost"
  /\ mpc = "wait"
  /\ record.emitted
  /\ clicks = "lines"
  /\ control = <<"Play">>

\* a re-fetch task takes its reply and applies it to Player State
Applies ==
  \E i \in 1..MaxTasks : tasks[i].pc = "got" /\ tasks'[i].pc = "idle"

\* C15 as claimed (under SpecWatcher): once the watcher task has removed
\* both subscriptions and returned, Player State is not mutated again: no
\* callback runs, and a delayed re-fetch still in flight has its result
\* discarded, not applied.
C15_QuietAfterTeardown ==
  [][TornDown => (state' = state /\ ~Applies)]_vars

\* what the code does: the watcher has returned, and a re-fetch task that
\* outlived it holds its reply and the lock is free for it to apply it
C15_Witness ==
  /\ TornDown
  /\ state = DefaultState
  /\ lock = "none"
  /\ \E i \in 1..MaxTasks :
       tasks[i].pc = "got" /\ tasks[i].metadata \in SysMetadata

C17_DefaultWhileAbsent ==
  [][(/\ ~present
      /\ ~present'
      /\ matches.name_owner_changed.cb
      /\ state = DefaultState)
     => state' = DefaultState]_vars

\* what the code does: name_lost ran, no record was printed since, the name
\* still has no owner, and Player State holds a track again
C17_Witness ==
  /\ ~present
  /\ loss = "pending"
  /\ matches.name_owner_changed.cb
  /\ state.title = "A"
  /\ state.artists = <<"X">>

Exited == wpc \in {"failed1", "failed2", "done"}

\* a subscription the watcher leaves behind: its rule is registered with
\* the bus, or its callback is installed, and remove_match was not called
LeftBehind(m) == (m.rule \/ m.cb) /\ ~m.removed

\* C19 (under SpecWatcher): when the watcher task has returned, after a
\* failed first or second registration or after teardown, it has called
\* remove_match for every subscription it registered and no callback is
\* installed; a rule is still registered with the bus only if its removal
\* call failed.
C19_NoSubscriptionLeft ==
  Exited =>
    /\ ~LeftBehind(matches.property_changed)
    /\ ~LeftBehind(matches.name_owner_changed)
    /\ ~matches.property_changed.cb
    /\ ~matches.name_owner_changed.cb

C19_Witness ==
  /\ wpc = "failed2"
  /\ dropped = "no"
  /\ matches.property_changed = [cb |-> FALSE, rule |-> FALSE,
                                  removed |-> TRUE]
  /\ matches.name_owner_changed = NoMatch

(***************************************************************************)
(* Claims about the methods of PlayerState, checked under SpecFn.          *)
(***************************************************************************)
Updated == call.op = "update"

Decoded == call.op = "update_metadata"

\* the entries of the map update was called with that set PlaybackStatus
StatusEntries ==
  {i \in 1..Len(call.props) : call.props[i].field = "PlaybackStatus"}

SaysPlaying ==
  \E i \in StatusEntries : call.props[i].value = StrV("Playing")

\* C5 as claimed: after update(), playing is true if the map holds
\* PlaybackStatus = "Playing" and false in every other case, an absent
\* PlaybackStatus key included.
C5_PlayingFalseWhenAbsent == Updated => (state.playing = SaysPlaying)

\* C5 amended: after update(), playing is true if the map holds
\* PlaybackStatus = "Playing", false if it holds PlaybackStatus with any other
\* or a malformed value, and unchanged if the map has no PlaybackStatus key.
C5_PlayingFollowsStatus ==
  Updated =>
    state.playing = IF StatusEntries = {} THEN call.before.playing
                    ELSE SaysPlaying

C5_Witness ==
  /\ Updated
  /\ StatusEntries = {}
  /\ call.props # << >>
  /\ call.before.playing
  /\ state.playing

\* C6: every call of update() or name_lost(), an empty map or a map of
\* unrecognized keys included, calls notify_one on the Invalidation Signal at
\* least once, which leaves a wake-up stored in it.
C6_AlwaysFires ==
  call.op \in {"update", "name_lost"} =>
    call.notifies >= 1 /\ invalidate.permit

C6_Witness ==
  /\ Updated
  /\ Len(call.props) = 1
  /\ call.props[1].field = "Volume"
  /\ call.notifies = 1
  /\ invalidate.permit

\* C7: name_lost() leaves Player State at its default from every prior state
\* and fires the Invalidation Signal exactly once.
C7_NameLostResets ==
  call.op = "name_lost" => state = DefaultState /\ call.notifies = 1

C7_Witness ==
  /\ call.op = "name_lost"
  /\ call.before.playing
  /\ call.before.title # ""
  /\ call.before.artists # << >>
  /\ state = DefaultState

\* the metadata has the one entry key -> variant(inner)
OnlyEntry(key) ==
  /\ Decoded
  /\ call.metadata.t = "array"
  /\ Len(call.metadata.kids) = 2
  /\ call.metadata.kids[1] = StrV(key)
  /\ call.metadata.kids[2].t = "variant"

OnlyValue == call.metadata.kids[2].kids[1]

IsStr(v) == v.t = "str"

\* the texts of the elements that are strings, in order
StringsOf(elems) ==
  LET strs == SelectSeq(elems, IsStr)
  IN  [i \in 1..Len(strs) |-> strs[i].s]

\* C8 as claimed: a xesam:artist entry whose value is no list leaves artists
\* at its prior value; a list rebuilds artists from its string elements.
C8_NonListKeepsArtists ==
  OnlyEntry("xesam:artist") =>
    state.artists = IF OnlyValue.t = "array" THEN StringsOf(OnlyValue.kids)
                    ELSE call.before.artists

\* C8 amended: a xesam:artist entry clears artists whatever its value is: a
\* value that is no list leaves artists empty, a list rebuilds artists from
\* its string elements in order, skipping the elements that are no strings.
C8_ArtistEntryClears ==
  OnlyEntry("xesam:artist") =>
    state.artists = IF OnlyValue.t = "array" THEN StringsOf(OnlyValue.kids)
                    ELSE << >>

C8_Witness ==
  /\ OnlyEntry("xesam:artist")
  /\ OnlyValue.t = "str"
  /\ call.before.artists # << >>
  /\ state.artists = << >>

\* the keys of the entries of the metadata: its items at odd positions
KeyItems ==
  IF call.metadata.t # "array" THEN {}
  ELSE {call.metadata.kids[i] :
          i \in {j \in 1..Len(call.metadata.kids) : j % 2 = 1}}

EntryAt(k) == <<call.metadata.kids[2 * k - 1], call.metadata.kids[2 * k]>>

\* malformed as C10 means it: the key is no string, or the value cannot be
\* unwrapped from its variant
Malformed(e) == ~as_str(e[1]).some \/ ~extract_value_from_variant(e[2]).some

\* C10 as claimed: a well-formed xesam:title or xesam:artist entry that
\* follows a malformed entry (here: the last entry of the map) is still
\* applied to Player State.
C10_DecodingContinues ==
  (/\ Decoded
   /\ call.metadata.t = "array"
   /\ Len(call.metadata.kids) >= 4
   /\ Len(call.metadata.kids) % 2 = 0
   /\ \E k \in 1..(Len(call.metadata.kids) \div 2 - 1) : Malformed(EntryAt(k)))
  => LET last == EntryAt(Len(call.metadata.kids) \div 2)
     IN  /\ last = TitleEntry("A") => state.title = "A"
         /\ last = ArtistEntry(<<StrV("Y"), StrV("X")>>)
              => state.artists = <<"Y", "X">>

\* the code's behaviour on such a map: decoding stopped at the value that
\* is no variant and the title entry after it was dropped
C10_Witness ==
  /\ Decoded
  /\ call.metadata = Dict(<<<<StrV("xesam:title"), StrV("A")>>,
                            TitleEntry("A")>>)
  /\ call.before.title = "B"
  /\ state.title = "B"

\* a xesam:title entry whose value is a string in a variant
WellFormedTitle(e) ==
  /\ e[1] = StrV("xesam:title")
  /\ e[2].t = "variant"
  /\ e[2].kids[1].t = "str"

\* a xesam:artist entry whose value is a list of strings in a variant
WellFormedArtist(e) ==
  /\ e[1] = StrV("xesam:artist")
  /\ e[2].t = "variant"
  /\ e[2].kids[1].t = "array"
  /\ \A i \in 1..Len(e[2].kids[1].kids) : e[2].kids[1].kids[i].t = "str"

\* the metadata is a map of exactly a well-formed title entry and a
\* well-formed artist entry, title first or artist first
TitleAndArtists(t, a) ==
  /\ Decoded
  /\ call.metadata.t = "array"
  /\ Len(call.metadata.kids) = 4
  /\ {t, a} = {1, 2}
  /\ WellFormedTitle(EntryAt(t))
  /\ WellFormedArtist(EntryAt(a))

\* C11: update_metadata with a map of a well-formed title T and a well-formed
\* artist list L leaves title = T and artists = L in the order of the list,
\* from every prior state; update_metadata with a value that has no
\* xesam:artist key leaves artists as it was before the call.
C11_TitleAndArtistsSet ==
  /\ \A t, a \in 1..2 :
       TitleAndArtists(t, a) =>
         /\ state.title = EntryAt(t)[2].kids[1].s
         /\ state.artists = StringsOf(EntryAt(a)[2].kids[1].kids)
  /\ (Decoded /\ StrV("xesam:artist") \notin KeyItems) =>
       state.artists = call.before.artists

C11_Witness ==
  /\ TitleAndArtists(2, 1)
  /\ call.before.title = "B"
  /\ call.before.artists = <<"X", "X">>
  /\ state.title = "A"
  /\ state.artists = <<"Y", "X">>

(***************************************************************************)
(* Claims about the wait of the render loop, checked under SpecClock.      *)
(***************************************************************************)
WaitComputed == clock.outcome \in {"ok", "wrapped", "panicked"}

\* the milliseconds from a reading to the next minute boundary; a minute
\* with a leap second has 61 seconds
MsToNextMinute(now_wall) ==
  IF now_wall.millis >= SecondMs
  THEN MinuteMs + SecondMs - SecondMs * now_wall.second - now_wall.millis
  ELSE MinuteMs - SecondMs * now_wall.second - now_wall.millis

\* C12 as claimed: for every reading of the clock, a leap second included,
\* the wait is computed without unsigned underflow, is the smaller of 2000
\* and the milliseconds that remain until the next minute boundary, and so
\* is never more than 2000.
C12_WaitIsCapped ==
  WaitComputed =>
    /\ clock.outcome = "ok"
    /\ clock.wait_ms <= MaxWaitMs
    /\ clock.wait_ms = IF MsToNextMinute(clock.now_wall) < MaxWaitMs
                       THEN MsToNextMinute(clock.now_wall) ELSE MaxWaitMs

\* what the code does in the middle of a leap second, half a second before
\* the minute ends: the subtraction underflows, and a build without overflow
\* checks waits the full 2000 ms
C12_Witness ==
  /\ clock.now_wall = [second |-> 59, millis |-> 1500]
  /\ clock.outcome = "wrapped"
  /\ clock.wait_ms = MaxWaitMs
  /\ MsToNextMinute(clock.now_wall) = 500

(***************************************************************************)
(* Claims about the printed record, checked under SpecRender (Player State *)
(* does not change there, so the snapshot is Player State).                *)
(***************************************************************************)
\* the artists with " - " between each two of them
Separated(artists) ==
  IF artists = << >> THEN << >>
  ELSE [i \in 1..(2 * Len(artists) - 1) |->
          IF i % 2 = 1 THEN artists[(i + 1) \div 2] ELSE " - "]

\* C14: the record printed for a snapshot with a title that is not empty
\* has as track text the artists joined by " - ", then " - ", then the title;
\* the play/pause block of every record is named "mpris-pause" if the
\* snapshot is playing and "mpris-play" if not.  So a paused "A" by X and Y
\* prints "X - Y - A" with the play action.
C14_RecordOfSnapshot ==
  (record.emitted /\ mpc \in {"wait", "waiting", "panicked"}) =>
    /\ state.title # "" =>
         record.track = Separated(state.artists) \o <<" - ", state.title>>
    /\ record.play_name = IF state.playing THEN "mpris-pause"
                          ELSE "mpris-play"

C14_Witness ==
  /\ record.emitted
  /\ state = [playing |-> FALSE, title |-> "A", artists |-> <<"X", "Y">>]
  /\ record.track = <<"X", " - ", "Y", " - ", "A">>
  /\ record.play_name = "mpris-play"

(***************************************************************************)
(* Claims about one update() and the render loop, under SpecOneUpdate.     *)
(***************************************************************************)
\* C18 as claimed: one call of update() ends at most one wait of the render
\* loop early.  Once the call has woken the loop out of a wait, the next
\* wait is not ended by a stored permit as well.
C18_OneEarlyWake ==
  [][(Updated /\ mpc = "wait" /\ lastWake = "notified")
       => lastWake' # "pending"]_vars

\* what the code does for a map with a Metadata entry: update_metadata
\* calls notify_one, update calls it again; the first woke the loop, the
\* second left a permit that ended the next wait at once
C18_Witness ==
  /\ Updated
  /\ call.notifies = 2
  /\ Len(call.props) = 1
  /\ lastWake = "pending"
  /\ mpc = "lock"

(***************************************************************************)
(* Claims about the delayed re-fetch, checked under SpecRefetch.           *)
(***************************************************************************)
\* the NameOwnerChanged callback spawns a re-fetch task
Spawns ==
  \E i \in 1..MaxTasks : tasks[i].pc = "idle" /\ tasks'[i].pc = "sleep"

\* C20: the re-fetch that follows a new owner of the name changes title and
\* artists only: from every Player State and for every metadata value in
\* the reply, playing is after the task applied the reply what it was
\* before; and the callback that spawns the task changes no field of Player
\* State and does not fire the Invalidation Signal.
C20_RefetchKeepsPlaying ==
  [][/\ Applies => state'.playing = state.playing
     /\ Spawns => (state' = state /\ invalidate' = invalidate)]_vars

C20_Witness ==
  /\ state = [playing |-> TRUE, title |-> "A", artists |-> <<"Y", "X">>]
  /\ invalidate.waiter = "notified"
  /\ snap.current_track = << >>
  /\ \A i \in 1..MaxTasks : tasks[i].pc = "idle"
====
